---------------------------- MODULE Spec2Model ----------------------------
(***************************************************************************)
(* Model of the CDC webhook extension for PostgreSQL:                      *)
(*   - src/src/cdc_webhook.c        call_webhook and its helpers           *)
(*   - src/src/cdc_webhook_worker.c the background worker skeleton         *)
(*                                                                         *)
(* Three specifications share the module:                                  *)
(*   Spec        one call of call_webhook, statement by statement          *)
(*   HeaderSpec  add_headers_from_jsonb applied to bounded JSONB inputs    *)
(*   WorkerSpec  cdc_webhook_worker_main with asynchronous signals         *)
(***************************************************************************)
EXTENDS Integers, Sequences, FiniteSets, TLC

VARIABLES
    config,           \* WebhookConfig of the call (cdc_webhook.c:160-167)
    headers_jsonb,    \* argument 2 of call_webhook
    payload,          \* argument 0 of call_webhook
    pc,               \* position inside call_webhook
    current_attempt,  \* cdc_webhook.c:169
    success,          \* cdc_webhook.c:170
    err_msg,          \* StringInfo err_msg, as the sequence of appended pieces
    outcomes,         \* what the environment answered in each loop iteration
    posts,            \* the HTTP POSTs performed (curl_easy_perform calls)
    slept,            \* arguments of sleep(), as unsigned 32-bit values
    notices,          \* ereport(NOTICE) messages
    warnings,         \* ereport(WARNING) messages
    errors,           \* ereport(ERROR) messages
    log,              \* order of the library calls and reports of the call
    hdr_in,           \* HeaderSpec: the JSONB handed to add_headers_from_jsonb
    hdr_out,          \* HeaderSpec: the curl_slist after the call
    hdr_done,         \* HeaderSpec: whether the call has run
    wpc,              \* position inside cdc_webhook_worker_main
    got_SIGHUP,       \* cdc_webhook_worker.c:15
    got_SIGTERM,      \* cdc_webhook_worker.c:16
    latch,            \* MyLatch is set
    exit_code,        \* argument of proc_exit, -1 while the worker runs
    iterations,       \* loop iterations started (the loop test passed)
    iter_at_term,     \* iterations when SIGTERM was first handled, else -1
    sighups,          \* SIGHUPs handled
    reloads,          \* ProcessConfigFile calls
    hup_pending       \* a SIGHUP was handled and no ProcessConfigFile followed yet

webhook_vars == <<config, headers_jsonb, payload, pc, current_attempt, success,
                  err_msg, outcomes, posts, slept, notices, warnings, errors, log>>
header_vars == <<hdr_in, hdr_out, hdr_done>>
worker_vars == <<wpc, got_SIGHUP, got_SIGTERM, latch, exit_code, iterations,
                 iter_at_term, sighups, reloads, hup_pending>>
vars == <<webhook_vars, header_vars, worker_vars>>

----------------------------------------------------------------------------
(* Bounds of the model *)

\* Largest retry_count drawn for a call (the smallest is -1).
MaxRetry == 3
\* Largest number of keys of a headers object in HeaderSpec.
MaxHeaderKeys == 3
\* Largest number of worker loop iterations followed.
MaxIterations == 3
\* Largest number of SIGHUPs sent to one worker.
MaxSighups == 2
\* Largest number of loop iterations followed in WideSpec.
MaxWideIterations == 3

----------------------------------------------------------------------------
(* 32-bit arithmetic of the C code *)

INT_MAX == 2147483647
INT_MIN == (-INT_MAX) - 1
Half == 1073741824          \* 2^30

\* x + x in a 32-bit int. Signed overflow is undefined; the value given is
\* the two's complement wrap-around the usual builds produce.
Dbl32(x) ==
    IF x >= Half THEN ((x - Half) - Half) * 2
    ELSE IF x < -Half THEN ((x + Half) + Half) * 2
    ELSE x * 2

\* x * 2^a in a 32-bit int with wrap-around, 0 <= a.
RECURSIVE MulPow2Wrap(_, _)
MulPow2Wrap(x, a) == IF a = 0 THEN x ELSE MulPow2Wrap(Dbl32(x), a - 1)

\* x + 1 in a 32-bit int (wraps at INT_MAX, where C leaves it undefined).
Inc32(x) == IF x = INT_MAX THEN INT_MIN ELSE x + 1

\* Conversion of an int to unsigned int (the parameter type of sleep()),
\* written as <<high 16 bits, low 16 bits>>.
ToUnsigned(d) ==
    IF d >= 0 THEN <<d \div 65536, d % 65536>>
    ELSE <<(d \div 65536) + 65536, d % 65536>>

----------------------------------------------------------------------------
(* JSONB values and their iteration *)

\* A JSONB scalar or nested container as JsonbIteratorNext(.., skipNested =
\* true) reports it: nested objects and arrays come back as jbvBinary.
JsonbString(s) == [type |-> "jbvString", str |-> s]
JsonbOther(t) == [type |-> t, str |-> ""]
NonStringTypes == {"jbvNumeric", "jbvBool", "jbvNull", "jbvBinary"}

Token(tok, v) == [token |-> tok, type |-> v.type, str |-> v.str]

\* The token stream of JsonbIteratorNext for a top-level object given as a
\* sequence of [key, val] pairs in storage order, or for a top-level array.
RECURSIVE PairTokens(_)
PairTokens(pairs) ==
    IF pairs = <<>> THEN <<>>
    ELSE <<Token("WJB_KEY", JsonbString(Head(pairs).key)),
           Token("WJB_VALUE", Head(pairs).val)>> \o PairTokens(Tail(pairs))

JsonbTokens(j) ==
    IF j.root = "object"
    THEN <<Token("WJB_BEGIN_OBJECT", JsonbOther("jbvNull"))>>
         \o PairTokens(j.pairs)
         \o <<Token("WJB_END_OBJECT", JsonbOther("jbvNull"))>>
    ELSE <<Token("WJB_BEGIN_ARRAY", JsonbOther("jbvNull"))>>
         \o [i \in 1..Len(j.pairs) |-> Token("WJB_ELEM", j.pairs[i].val)]
         \o <<Token("WJB_END_ARRAY", JsonbOther("jbvNull"))>>

----------------------------------------------------------------------------
(* add_headers_from_jsonb, cdc_webhook.c:59-94 *)

\* Mutant: the value is appended whatever its JSON type.
IsStringValue_NoTypeCheck(t) == TRUE

\* cdc_webhook.c:84
IsStringValue(t) == t.type = "jbvString"

\* The while loop of cdc_webhook.c:73-91 from token i on.
RECURSIVE HeaderLoop(_, _, _, _, _)
HeaderLoop(toks, i, is_key, current_header, headers) ==
    IF i > Len(toks) THEN headers                       \* WJB_DONE
    ELSE LET t == toks[i] IN
         IF t.token = "WJB_KEY"
         THEN HeaderLoop(toks, i + 1, FALSE, t.str \o ": ", headers)
         ELSE IF t.token = "WJB_VALUE" /\ ~is_key
         THEN IF IsStringValue(t)
              THEN HeaderLoop(toks, i + 1, TRUE, current_header \o t.str,
                              Append(headers, current_header \o t.str))
              ELSE HeaderLoop(toks, i + 1, TRUE, current_header, headers)
         ELSE HeaderLoop(toks, i + 1, is_key, current_header, headers)

add_headers_from_jsonb(headers, jsonb_headers) ==
    HeaderLoop(JsonbTokens(jsonb_headers), 1, TRUE, "", headers)

\* Mutant: the header list is declared outside the loop and keeps the lines
\* of the attempt before.
BuildHeaders_Accumulates(jsonb_headers) ==
    add_headers_from_jsonb(
        (IF posts = <<>> THEN <<>> ELSE posts[Len(posts)].headers)
        \o <<"Content-Type: application/json">>, jsonb_headers)

\* cdc_webhook.c:196-198
BuildHeaders(jsonb_headers) ==
    add_headers_from_jsonb(<<"Content-Type: application/json">>, jsonb_headers)

----------------------------------------------------------------------------
(* calculate_retry_delay, cdc_webhook.c:103-109 *)

\* Mutant: LINEAR grows with the attempt index.
calculate_retry_delay_LinearGrows(cfg, attempt) ==
    IF cfg.retry_strategy = "LINEAR"
    THEN {cfg.retry_interval * (attempt + 1)}
    ELSE {MulPow2Wrap(cfg.retry_interval, attempt % 32)}

\* The values the call can return. 1 << attempt and the product are
\* undefined in C once they leave the int range: the results are then those
\* of the usual builds (wrap-around; a shift count of 32 or more is masked
\* to five bits or shifts everything out).
calculate_retry_delay(cfg, attempt) ==
    IF cfg.retry_strategy = "LINEAR"
    THEN {cfg.retry_interval}
    ELSE {MulPow2Wrap(cfg.retry_interval, attempt % 32)}
         \cup (IF attempt >= 32 THEN {0} ELSE {})

----------------------------------------------------------------------------
(* attempt_webhook_call, cdc_webhook.c:121-145 *)

\* Mutant: the upper bound of the success range is inclusive.
IsSuccessStatus_Inclusive(http_code) == http_code >= 200 /\ http_code <= 300

\* cdc_webhook.c:137
IsSuccessStatus(http_code) == http_code >= 200 /\ http_code < 300

\* curl_easy_strerror for the transport errors drawn by the model.
curl_easy_strerror(res) ==
    IF res = "CURLE_OPERATION_TIMEDOUT" THEN "Timeout was reached"
    ELSE "No error"

\* The return value and the text appended to err_msg (<<>> when nothing is).
attempt_webhook_call(res, http_code) ==
    IF res = "CURLE_OK"
    THEN IF IsSuccessStatus(http_code)
         THEN [ok |-> TRUE, appended |-> <<>>]
         ELSE [ok |-> FALSE,
               appended |-> <<"HTTP " \o ToString(http_code) \o ". ">>]
    ELSE [ok |-> FALSE,
          appended |-> <<"CURL error: " \o curl_easy_strerror(res) \o ". ">>]

----------------------------------------------------------------------------
(* Inputs of one call *)

RetryCounts == (-1)..MaxRetry
RetryIntervals == {0, 3, Half}
RetryStrategies == {"LINEAR", "EXPONENTIAL", "linear"}

Configs ==
    [url : {"http://example.test/hook"},
     timeout : {10},
     cancel_on_failure : BOOLEAN,
     retry_count : RetryCounts,
     retry_interval : RetryIntervals,
     retry_strategy : RetryStrategies]

HeaderInputs ==
    {[root |-> "object", pairs |-> <<>>],
     [root |-> "object",
      pairs |-> <<[key |-> "X-Id", val |-> JsonbOther("jbvNumeric")],
                  [key |-> "X-Auth", val |-> JsonbString("secret")]>>]}

\* JsonbToCString of the payload, cdc_webhook.c:203-204
JsonbToCString(p) == p.text
Payloads == {[text |-> "{\"op\": \"INSERT\"}"]}

\* What curl_easy_perform and CURLINFO_RESPONSE_CODE can answer.
HttpCodes == {199, 200, 299, 300, 500}
PerformResults ==
    [res : {"CURLE_OK"}, http_code : HttpCodes]
    \cup {[res |-> "CURLE_OPERATION_TIMEDOUT", http_code |-> 0]}

----------------------------------------------------------------------------
(* call_webhook, cdc_webhook.c:153-237 *)

WebhookInit ==
    /\ config \in Configs
    /\ headers_jsonb \in HeaderInputs
    /\ payload \in Payloads
    /\ pc = "curl_global_init"
    /\ current_attempt = 0
    /\ success = FALSE
    /\ err_msg = <<>>
    /\ outcomes = <<>>
    /\ posts = <<>>
    /\ slept = <<>>
    /\ notices = <<>>
    /\ warnings = <<>>
    /\ errors = <<>>
    /\ log = <<>>

\* cdc_webhook.c:175
CurlGlobalInit ==
    /\ pc = "curl_global_init"
    /\ pc' = "while"
    /\ log' = Append(log, "curl_global_init")
    /\ UNCHANGED <<config, headers_jsonb, payload, current_attempt, success,
                   err_msg, outcomes, posts, slept, notices, warnings, errors>>

\* Mutant: the loop does not stop at a success.
LoopCondition_IgnoresSuccess == current_attempt <= config.retry_count

\* Mutant: the loop allows one attempt more.
LoopCondition_OneMore ==
    current_attempt <= Inc32(config.retry_count) /\ ~success

\* cdc_webhook.c:178
LoopCondition == current_attempt <= config.retry_count /\ ~success

\* cdc_webhook.c:187-188
RetryNotice(delay) ==
    "Retrying webhook call in " \o ToString(delay) \o " seconds (attempt "
    \o ToString(Inc32(current_attempt)) \o "/"
    \o ToString(Inc32(config.retry_count)) \o ")"

\* Mutant: the tag names the attempt about to be made.
AttemptFailedTag_NextIndex ==
    "Attempt " \o ToString(Inc32(current_attempt)) \o "/"
    \o ToString(Inc32(config.retry_count)) \o " failed. "

\* cdc_webhook.c:182-183
AttemptFailedTag ==
    "Attempt " \o ToString(current_attempt) \o "/"
    \o ToString(Inc32(config.retry_count)) \o " failed. "

\* cdc_webhook.c:178, 180: the first iteration has no delay.
WhileFirst ==
    /\ pc = "while"
    /\ LoopCondition
    /\ ~(current_attempt > 0)
    /\ pc' = "curl_easy_init"
    /\ UNCHANGED <<config, headers_jsonb, payload, current_attempt, success,
                   err_msg, outcomes, posts, slept, notices, warnings, errors,
                   log>>

\* cdc_webhook.c:178-191: a later iteration tags the failure, reports the
\* retry and sleeps.
WhileRetry ==
    /\ pc = "while"
    /\ LoopCondition
    /\ current_attempt > 0
    /\ \E delay \in calculate_retry_delay(config, current_attempt - 1) :
          /\ err_msg' = Append(err_msg, AttemptFailedTag)
          /\ notices' = Append(notices, RetryNotice(delay))
          /\ slept' = Append(slept, ToUnsigned(delay))
    /\ log' = log \o <<"notice", "sleep">>
    /\ pc' = "curl_easy_init"
    /\ UNCHANGED <<config, headers_jsonb, payload, current_attempt, success,
                   outcomes, posts, warnings, errors>>

\* Mutant: an iteration without a handle is repeated without counting.
CurlEasyInitNull_NoAdvance ==
    /\ pc = "curl_easy_init"
    /\ outcomes' = Append(outcomes,
                          [handle |-> FALSE, res |-> "", http_code |-> 0])
    /\ log' = Append(log, "curl_easy_init_null")
    /\ pc' = "while"
    /\ UNCHANGED <<config, headers_jsonb, payload, current_attempt, success,
                   err_msg, posts, slept, notices, warnings, errors>>

\* cdc_webhook.c:194-195, 216: curl_easy_init returned NULL.
CurlEasyInitNull ==
    /\ pc = "curl_easy_init"
    /\ outcomes' = Append(outcomes,
                          [handle |-> FALSE, res |-> "", http_code |-> 0])
    /\ current_attempt' = Inc32(current_attempt)
    /\ log' = Append(log, "curl_easy_init_null")
    /\ pc' = "while"
    /\ UNCHANGED <<config, headers_jsonb, payload, success, err_msg, posts,
                   slept, notices, warnings, errors>>

\* cdc_webhook.c:194-216: the handle was created; headers and payload are
\* built, the POST is performed and classified, everything is released.
AttemptWebhookCall ==
    /\ pc = "curl_easy_init"
    /\ \E r \in PerformResults :
          LET result == attempt_webhook_call(r.res, r.http_code) IN
          /\ outcomes' = Append(outcomes, [handle |-> TRUE, res |-> r.res,
                                           http_code |-> r.http_code])
          /\ posts' = Append(posts,
                             [headers |-> BuildHeaders(headers_jsonb),
                              body |-> JsonbToCString(payload),
                              url |-> config.url,
                              timeout |-> config.timeout])
          /\ success' = result.ok
          /\ err_msg' = err_msg \o result.appended
    /\ current_attempt' = Inc32(current_attempt)
    /\ log' = log \o <<"curl_easy_init", "curl_slist_append", "post",
                       "curl_slist_free_all", "curl_easy_cleanup">>
    /\ pc' = "while"
    /\ UNCHANGED <<config, headers_jsonb, payload, slept, notices, warnings,
                   errors>>

\* Mutant: the global cleanup is forgotten.
WhileExit_NoCleanup ==
    /\ pc = "while"
    /\ ~(current_attempt <= config.retry_count /\ ~success)
    /\ pc' = "failure_policy"
    /\ UNCHANGED <<config, headers_jsonb, payload, current_attempt, success,
                   err_msg, outcomes, posts, slept, notices, warnings, errors,
                   log>>

\* cdc_webhook.c:178, 220: the loop ends.
WhileExit ==
    /\ pc = "while"
    /\ ~LoopCondition
    /\ log' = Append(log, "curl_global_cleanup")
    /\ pc' = "failure_policy"
    /\ UNCHANGED <<config, headers_jsonb, payload, current_attempt, success,
                   err_msg, outcomes, posts, slept, notices, warnings, errors>>

\* The StringInfo contents, err_msg.data.
RECURSIVE Concat(_)
Concat(pieces) ==
    IF pieces = <<>> THEN "" ELSE Head(pieces) \o Concat(Tail(pieces))

\* cdc_webhook.c:227
ErrorMessage == "Webhook delivery failed: " \o Concat(err_msg)

\* Mutant: the warning names the failure without the accumulated text.
WarningMessage_NoDetail == "Webhook delivery failed: "

\* cdc_webhook.c:231
WarningMessage == "Webhook delivery failed: " \o Concat(err_msg)

\* Mutant: the failure policy ignores the flag and always degrades.
Escalates_Never == FALSE

\* cdc_webhook.c:224
Escalates == config.cancel_on_failure

\* Mutant: the failure policy also runs after a success.
DeliveryFailed_Always == TRUE

\* cdc_webhook.c:223
DeliveryFailed == ~success

\* Mutant: the error is raised at the first failure, inside the loop.
ReportError_InLoop ==
    /\ pc = "while"
    /\ current_attempt > 0
    /\ ~success
    /\ config.cancel_on_failure
    /\ errors' = Append(errors, "Webhook delivery failed: " \o Concat(err_msg))
    /\ log' = Append(log, "ereport_error")
    /\ pc' = "error"
    /\ UNCHANGED <<config, headers_jsonb, payload, current_attempt, success,
                   err_msg, outcomes, posts, slept, notices, warnings>>

\* cdc_webhook.c:223-227: ereport(ERROR) does not return.
ReportError ==
    /\ pc = "failure_policy"
    /\ DeliveryFailed
    /\ Escalates
    /\ errors' = Append(errors, ErrorMessage)
    /\ log' = Append(log, "ereport_error")
    /\ pc' = "error"
    /\ UNCHANGED <<config, headers_jsonb, payload, current_attempt, success,
                   err_msg, outcomes, posts, slept, notices, warnings>>

\* cdc_webhook.c:223, 228-236
ReportWarning ==
    /\ pc = "failure_policy"
    /\ DeliveryFailed
    /\ ~Escalates
    /\ warnings' = Append(warnings, WarningMessage)
    /\ log' = log \o <<"ereport_warning", "return">>
    /\ pc' = "returned"
    /\ UNCHANGED <<config, headers_jsonb, payload, current_attempt, success,
                   err_msg, outcomes, posts, slept, notices, errors>>

\* cdc_webhook.c:223, 235-236
ReturnVoid ==
    /\ pc = "failure_policy"
    /\ ~DeliveryFailed
    /\ log' = Append(log, "return")
    /\ pc' = "returned"
    /\ UNCHANGED <<config, headers_jsonb, payload, current_attempt, success,
                   err_msg, outcomes, posts, slept, notices, warnings, errors>>

\* The state of a call that is not being followed.
WebhookIdle ==
    /\ config = [url |-> "http://example.test/hook", timeout |-> 10,
                 cancel_on_failure |-> FALSE, retry_count |-> 0,
                 retry_interval |-> 0, retry_strategy |-> "LINEAR"]
    /\ headers_jsonb = [root |-> "object", pairs |-> <<>>]
    /\ payload = [text |-> "{}"]
    /\ pc = "idle"
    /\ current_attempt = 0
    /\ success = FALSE
    /\ err_msg = <<>>
    /\ outcomes = <<>>
    /\ posts = <<>>
    /\ slept = <<>>
    /\ notices = <<>>
    /\ warnings = <<>>
    /\ errors = <<>>
    /\ log = <<>>

----------------------------------------------------------------------------
(* HeaderSpec: add_headers_from_jsonb on bounded inputs *)

\* Keys in the storage order of a JSONB object (by length, then bytewise).
HeaderKey(i) == "X-K" \o ToString(i)

HeaderValues ==
    {JsonbString("v"), JsonbString("")} \cup {JsonbOther(t) : t \in NonStringTypes}

JsonbInputs ==
    {[root |-> r, pairs |-> [i \in 1..n |-> [key |-> HeaderKey(i), val |-> f[i]]]] :
        r \in {"object", "array"},
        n \in 0..MaxHeaderKeys,
        f \in [1..MaxHeaderKeys -> HeaderValues]}

HeaderIdle ==
    /\ hdr_in = [root |-> "object", pairs |-> <<>>]
    /\ hdr_out = <<>>
    /\ hdr_done = FALSE

HeaderInit ==
    /\ hdr_in \in JsonbInputs
    /\ hdr_out = <<>>
    /\ hdr_done = FALSE

\* cdc_webhook.c:196-198
HeaderApply ==
    /\ ~hdr_done
    /\ hdr_out' = BuildHeaders(hdr_in)
    /\ hdr_done' = TRUE
    /\ UNCHANGED hdr_in

----------------------------------------------------------------------------
(* cdc_webhook_worker_main, cdc_webhook_worker.c:36-79 *)

WorkerIdle ==
    /\ wpc = "idle"
    /\ got_SIGHUP = FALSE
    /\ got_SIGTERM = FALSE
    /\ latch = FALSE
    /\ exit_code = -1
    /\ iterations = 0
    /\ iter_at_term = -1
    /\ sighups = 0
    /\ reloads = 0
    /\ hup_pending = FALSE

\* A freshly forked worker: the statics of lines 15-16 are false.
WorkerInit ==
    /\ wpc = "start"
    /\ got_SIGHUP = FALSE
    /\ got_SIGTERM = FALSE
    /\ latch = FALSE
    /\ exit_code = -1
    /\ iterations = 0
    /\ iter_at_term = -1
    /\ sighups = 0
    /\ reloads = 0
    /\ hup_pending = FALSE

\* The handlers are installed and the signals unblocked (lines 38-40).
SignalsUnblocked == wpc \notin {"idle", "start", "exited"}

\* cdc_webhook_worker.c:19-25
handle_sighup ==
    /\ SignalsUnblocked
    /\ sighups < MaxSighups
    /\ got_SIGHUP' = TRUE
    /\ latch' = TRUE
    /\ sighups' = sighups + 1
    /\ hup_pending' = TRUE
    /\ UNCHANGED <<wpc, got_SIGTERM, exit_code, iterations, iter_at_term, reloads>>

\* cdc_webhook_worker.c:27-33
handle_sigterm ==
    /\ SignalsUnblocked
    /\ ~got_SIGTERM
    /\ got_SIGTERM' = TRUE
    /\ latch' = TRUE
    /\ iter_at_term' = iterations
    /\ UNCHANGED <<wpc, got_SIGHUP, exit_code, iterations, sighups, reloads,
                   hup_pending>>

\* cdc_webhook_worker.c:38-44
WorkerStart ==
    /\ wpc = "start"
    /\ wpc' = "while"
    /\ UNCHANGED <<got_SIGHUP, got_SIGTERM, latch, exit_code, iterations,
                   iter_at_term, sighups, reloads,
                   hup_pending>>

\* cdc_webhook_worker.c:46: the loop test passes.
WorkerLoopEnter ==
    /\ wpc = "while"
    /\ ~got_SIGTERM
    /\ iterations < MaxIterations
    /\ iterations' = iterations + 1
    /\ wpc' = "rand"
    /\ UNCHANGED <<got_SIGHUP, got_SIGTERM, latch, exit_code, iter_at_term,
                   sighups, reloads,
                   hup_pending>>

\* cdc_webhook_worker.c:46, 77-78: the loop test fails.
WorkerShutdown ==
    /\ wpc = "while"
    /\ got_SIGTERM
    /\ wpc' = "exited"
    /\ exit_code' = 0
    /\ UNCHANGED <<got_SIGHUP, got_SIGTERM, latch, iterations, iter_at_term,
                   sighups, reloads,
                   hup_pending>>

\* cdc_webhook_worker.c:49-53: rand() % 10 == 0; elog(ERROR) ends the
\* worker with status 1, as the proc_exit(1) after it states.
WorkerSimulatedCrash ==
    /\ wpc = "rand"
    /\ wpc' = "exited"
    /\ exit_code' = 1
    /\ UNCHANGED <<got_SIGHUP, got_SIGTERM, latch, iterations, iter_at_term,
                   sighups, reloads,
                   hup_pending>>

\* cdc_webhook_worker.c:49, 56-64: no crash; the events are "processed" and
\* the worker sleeps one second.
WorkerProcess ==
    /\ wpc = "rand"
    /\ wpc' = "reset_latch"
    /\ UNCHANGED <<got_SIGHUP, got_SIGTERM, latch, exit_code, iterations,
                   iter_at_term, sighups, reloads,
                   hup_pending>>

\* Mutant: the reload flag is cleared together with the latch.
WorkerResetLatch_ClearsFlag ==
    /\ wpc = "reset_latch"
    /\ latch' = FALSE
    /\ got_SIGHUP' = FALSE
    /\ wpc' = "check_sighup"
    /\ UNCHANGED <<got_SIGTERM, exit_code, iterations, iter_at_term, sighups,
                   reloads, hup_pending>>

\* cdc_webhook_worker.c:67
WorkerResetLatch ==
    /\ wpc = "reset_latch"
    /\ latch' = FALSE
    /\ wpc' = "check_sighup"
    /\ UNCHANGED <<got_SIGHUP, got_SIGTERM, exit_code, iterations,
                   iter_at_term, sighups, reloads,
                   hup_pending>>

\* cdc_webhook_worker.c:69: the flag is read.
WorkerCheckSighup ==
    /\ wpc = "check_sighup"
    /\ wpc' = IF got_SIGHUP THEN "clear_sighup" ELSE "while"
    /\ UNCHANGED <<got_SIGHUP, got_SIGTERM, latch, exit_code, iterations,
                   iter_at_term, sighups, reloads,
                   hup_pending>>

\* cdc_webhook_worker.c:71
WorkerClearSighup ==
    /\ wpc = "clear_sighup"
    /\ got_SIGHUP' = FALSE
    /\ wpc' = "reload"
    /\ UNCHANGED <<got_SIGTERM, latch, exit_code, iterations, iter_at_term,
                   sighups, reloads,
                   hup_pending>>

\* cdc_webhook_worker.c:72-73
WorkerReload ==
    /\ wpc = "reload"
    /\ reloads' = reloads + 1
    /\ hup_pending' = FALSE
    /\ wpc' = "while"
    /\ UNCHANGED <<got_SIGHUP, got_SIGTERM, latch, exit_code, iterations,
                   iter_at_term, sighups>>

----------------------------------------------------------------------------
(* Specifications *)

Init == WebhookInit /\ HeaderIdle /\ WorkerIdle

Next ==
    \/ CurlGlobalInit /\ UNCHANGED <<header_vars, worker_vars>>
    \/ WhileFirst /\ UNCHANGED <<header_vars, worker_vars>>
    \/ WhileRetry /\ UNCHANGED <<header_vars, worker_vars>>
    \/ CurlEasyInitNull /\ UNCHANGED <<header_vars, worker_vars>>
    \/ AttemptWebhookCall /\ UNCHANGED <<header_vars, worker_vars>>
    \/ WhileExit /\ UNCHANGED <<header_vars, worker_vars>>
    \/ ReportError /\ UNCHANGED <<header_vars, worker_vars>>
    \/ ReportWarning /\ UNCHANGED <<header_vars, worker_vars>>
    \/ ReturnVoid /\ UNCHANGED <<header_vars, worker_vars>>

Spec == Init /\ [][Next]_vars

HeaderSpecInit == WebhookIdle /\ HeaderInit /\ WorkerIdle

HeaderNext == HeaderApply /\ UNCHANGED <<webhook_vars, worker_vars>>

HeaderSpec == HeaderSpecInit /\ [][HeaderNext]_vars

WorkerSpecInit == WebhookIdle /\ HeaderIdle /\ WorkerInit

WorkerNext ==
    \/ handle_sighup /\ UNCHANGED <<webhook_vars, header_vars>>
    \/ handle_sigterm /\ UNCHANGED <<webhook_vars, header_vars>>
    \/ WorkerStart /\ UNCHANGED <<webhook_vars, header_vars>>
    \/ WorkerLoopEnter /\ UNCHANGED <<webhook_vars, header_vars>>
    \/ WorkerShutdown /\ UNCHANGED <<webhook_vars, header_vars>>
    \/ WorkerSimulatedCrash /\ UNCHANGED <<webhook_vars, header_vars>>
    \/ WorkerProcess /\ UNCHANGED <<webhook_vars, header_vars>>
    \/ WorkerResetLatch /\ UNCHANGED <<webhook_vars, header_vars>>
    \/ WorkerCheckSighup /\ UNCHANGED <<webhook_vars, header_vars>>
    \/ WorkerClearSighup /\ UNCHANGED <<webhook_vars, header_vars>>
    \/ WorkerReload /\ UNCHANGED <<webhook_vars, header_vars>>

WorkerSpec == WorkerSpecInit /\ [][WorkerNext]_vars

\* The steps of cdc_webhook_worker_main itself (not the signal handlers).
WorkerMain ==
    \/ WorkerStart
    \/ WorkerLoopEnter
    \/ WorkerShutdown
    \/ WorkerSimulatedCrash
    \/ WorkerProcess
    \/ WorkerResetLatch
    \/ WorkerCheckSighup
    \/ WorkerClearSighup
    \/ WorkerReload

\* The worker process keeps running its code: pg_usleep and every call of
\* the loop return. Signals arrive or not.
WorkerFairSpec ==
    /\ WorkerSpecInit
    /\ [][WorkerNext]_vars
    /\ WF_vars(WorkerMain /\ UNCHANGED <<webhook_vars, header_vars>>)

\* Calls whose retry_count is at the ends of the int range
\* (PG_GETARG_INT32, cdc_webhook.c:164).
WideConfigs ==
    [url : {"http://example.test/hook"},
     timeout : {10},
     cancel_on_failure : BOOLEAN,
     retry_count : {INT_MIN, 0, INT_MAX},
     retry_interval : {0},
     retry_strategy : {"LINEAR", "EXPONENTIAL"}]

WideInit ==
    /\ config \in WideConfigs
    /\ headers_jsonb = [root |-> "object", pairs |-> <<>>]
    /\ payload \in Payloads
    /\ pc = "curl_global_init"
    /\ current_attempt = 0
    /\ success = FALSE
    /\ err_msg = <<>>
    /\ outcomes = <<>>
    /\ posts = <<>>
    /\ slept = <<>>
    /\ notices = <<>>
    /\ warnings = <<>>
    /\ errors = <<>>
    /\ log = <<>>

WideSpecInit == WideInit /\ HeaderIdle /\ WorkerIdle

\* The steps of call_webhook, followed for MaxWideIterations iterations.
WideNext ==
    \/ CurlGlobalInit /\ UNCHANGED <<header_vars, worker_vars>>
    \/ WhileFirst /\ UNCHANGED <<header_vars, worker_vars>>
    \/ WhileRetry /\ UNCHANGED <<header_vars, worker_vars>>
    \/ /\ Len(outcomes) < MaxWideIterations
       /\ CurlEasyInitNull
       /\ UNCHANGED <<header_vars, worker_vars>>
    \/ /\ Len(outcomes) < MaxWideIterations
       /\ AttemptWebhookCall
       /\ UNCHANGED <<header_vars, worker_vars>>
    \/ WhileExit /\ UNCHANGED <<header_vars, worker_vars>>
    \/ ReportError /\ UNCHANGED <<header_vars, worker_vars>>
    \/ ReportWarning /\ UNCHANGED <<header_vars, worker_vars>>
    \/ ReturnVoid /\ UNCHANGED <<header_vars, worker_vars>>

WideSpec == WideSpecInit /\ [][WideNext]_vars

----------------------------------------------------------------------------
(* Vocabulary of the properties *)

\* The retry loop of the call has ended.
LoopEnded == pc \in {"failure_policy", "returned", "error"}
\* The call has ended, by return or by the error.
CallEnded == pc \in {"returned", "error"}

PlannedAttempts == config.retry_count + 1

\* Loop iterations whose curl_easy_init returned NULL.
NullHandles == Cardinality({i \in DOMAIN outcomes : ~outcomes[i].handle})

\* The failure description of one answer of the environment, read off the
\* answer: nothing for a 2xx status or a missing handle.
Description(o) ==
    IF ~o.handle THEN <<>>
    ELSE IF o.res # "CURLE_OK"
    THEN <<"CURL error: Timeout was reached. ">>
    ELSE IF o.http_code \in 200..299 THEN <<>>
    ELSE <<"HTTP " \o ToString(o.http_code) \o ". ">>

AllDescriptions ==
    {"HTTP " \o ToString(c) \o ". " : c \in HttpCodes}
    \cup {"CURL error: Timeout was reached. "}

\* How many failure descriptions a message holds.
DescriptionCount(pieces) ==
    Cardinality({i \in DOMAIN pieces : pieces[i] \in AllDescriptions})

\* The accumulated message that a sequence of answers leaves behind once
\* the loop has ended: before every iteration but the first the tag of
\* the iteration before, then the iteration's own description.
RECURSIVE ExpectedPieces(_, _, _)
ExpectedPieces(outs, i, total) ==
    IF i > Len(outs) THEN <<>>
    ELSE (IF i > 1
          THEN <<"Attempt " \o ToString(i - 1) \o "/" \o ToString(total)
                 \o " failed. ">>
          ELSE <<>>)
         \o Description(outs[i])
         \o ExpectedPieces(outs, i + 1, total)

ExpectedFailureText ==
    "Webhook delivery failed: "
    \o Concat(ExpectedPieces(outcomes, 1, PlannedAttempts))

\* The events of the log after its last "post".
RECURSIVE AfterLastPost(_)
AfterLastPost(l) ==
    IF l = <<>> THEN <<>>
    ELSE IF \E i \in DOMAIN l : l[i] = "post"
    THEN AfterLastPost(Tail(l))
    ELSE l

\* n as an unsigned 32-bit value, for 0 <= n <= INT_MAX.
Exact(n) == <<n \div 65536, n % 65536>>

\* The exact double of a value <<high, low>>; a value that no longer fits
\* 32 bits keeps a high part above 65535.
ExactDouble(u) ==
    IF u[1] >= 65536 THEN u
    ELSE <<2 * u[1] + ((2 * u[2]) \div 65536), (2 * u[2]) % 65536>>

\* n * 2^a, exactly.
RECURSIVE ExactTimesPow2(_, _)
ExactTimesPow2(n, a) ==
    IF a = 0 THEN Exact(n) ELSE ExactDouble(ExactTimesPow2(n, a - 1))

\* The header lines the headers object asks for: one per string value.
RECURSIVE StringLines(_)
StringLines(pairs) ==
    IF pairs = <<>> THEN <<>>
    ELSE (IF Head(pairs).val.type = "jbvString"
          THEN <<Head(pairs).key \o ": " \o Head(pairs).val.str>>
          ELSE <<>>)
         \o StringLines(Tail(pairs))

----------------------------------------------------------------------------
(* Properties of call_webhook, checked under Spec *)

\* C1 (as stated): with retry_count = N >= 0 the number of HTTP POSTs never
\* exceeds N + 1, and when the loop has ended without a success exactly
\* N + 1 POSTs were performed.
C1_ExactlyNPlus1Posts ==
    config.retry_count >= 0 =>
        /\ Len(posts) <= PlannedAttempts
        /\ (LoopEnded /\ ~success => Len(posts) = PlannedAttempts)

\* C1 (amended): with retry_count = N >= 0 the loop runs at most N + 1
\* iterations, each performs one HTTP POST unless curl_easy_init returned
\* NULL for it, and when the loop has ended without a success it ran
\* exactly N + 1 iterations; so the POSTs never exceed N + 1 and are N + 1
\* minus the iterations without a handle.
C1_AttemptBudget ==
    config.retry_count >= 0 =>
        /\ Len(outcomes) <= PlannedAttempts
        /\ Len(posts) = Len(outcomes) - NullHandles
        /\ Len(posts) <= PlannedAttempts
        /\ (LoopEnded /\ ~success => Len(outcomes) = PlannedAttempts)

\* All three iterations of retry_count = 2 failed, one of them for want of
\* a handle.
C1_Witness ==
    /\ config.retry_count = 2
    /\ pc = "failure_policy"
    /\ ~success
    /\ Len(outcomes) = 3
    /\ Len(posts) = 2

\* C2 (as stated): when the POST with 0-based index k succeeds, k delays
\* were slept and k notices given.
C2_DelaysEqualFailedPosts ==
    (config.retry_count >= 0 /\ success) =>
        /\ Len(slept) = Len(posts) - 1
        /\ Len(notices) = Len(posts) - 1

\* C2 (amended): when a POST succeeds it is the last POST of the call and
\* the last iteration of the loop; the delays and the notices number the
\* iterations before it (the failed POSTs plus the iterations without a
\* handle), and from then on only the releases, the global cleanup and the
\* return follow.
C2_StopsAtFirstSuccess ==
    (config.retry_count >= 0 /\ success) =>
        /\ Len(outcomes) <= PlannedAttempts
        /\ outcomes[Len(outcomes)].handle
        /\ Description(outcomes[Len(outcomes)]) = <<>>
        /\ \A i \in 1..(Len(outcomes) - 1) :
              ~(outcomes[i].handle /\ Description(outcomes[i]) = <<>>)
        /\ Len(posts) = Len(outcomes) - NullHandles
        /\ Len(slept) = Len(outcomes) - 1
        /\ Len(notices) = Len(outcomes) - 1
        /\ \A i \in DOMAIN AfterLastPost(log) :
              AfterLastPost(log)[i] \in
                  {"curl_slist_free_all", "curl_easy_cleanup",
                   "curl_global_cleanup", "return"}

\* The third iteration succeeded after a failed POST and a missing handle,
\* and the call has returned.
C2_Witness ==
    /\ config.retry_count = 3
    /\ success
    /\ pc = "returned"
    /\ Len(outcomes) = 3
    /\ Len(posts) = 2
    /\ Len(slept) = 2

\* C3 (as stated): with cancel_on_failure and N + 1 planned attempts all
\* failed the call ends in the error, whose message holds N + 1 failure
\* descriptions.
C3_ErrorHoldsNPlus1Descriptions ==
    (config.retry_count >= 0 /\ config.cancel_on_failure /\ ~success
     /\ CallEnded) =>
        /\ pc = "error"
        /\ Len(errors) = 1
        /\ DescriptionCount(err_msg) = PlannedAttempts

\* C3 (amended): with cancel_on_failure and all planned iterations failed
\* the call ends in the error and never returns; the error is the only
\* report, and its message holds, in attempt order, one failure
\* description for each attempt that performed a POST and none for an
\* iteration without a handle.
C3_ErrorHoldsPostDescriptions ==
    (config.retry_count >= 0 /\ config.cancel_on_failure /\ ~success
     /\ LoopEnded) =>
        /\ pc \in {"failure_policy", "error"}
        /\ warnings = <<>>
        /\ (pc = "failure_policy" => errors = <<>>)
        /\ (pc = "error" =>
              /\ errors = <<ExpectedFailureText>>
              /\ DescriptionCount(err_msg) = Len(posts)
              /\ \A i \in DOMAIN log : log[i] # "return")

\* The error after three failed POSTs of retry_count = 2.
C3_Witness ==
    /\ config.retry_count = 2
    /\ config.cancel_on_failure
    /\ pc = "error"
    /\ Len(posts) = 3
    /\ DescriptionCount(err_msg) = 3

\* C4: without cancel_on_failure and all planned iterations failed the call
\* gives exactly one warning and returns, never the error; the warning and
\* the error carry the same text for the same answers: the text is read
\* off the answers and the retry count alone, and so are the numbers of
\* iterations, delays and notices.
C4_WarningSameMessage ==
    (~success /\ CallEnded) =>
        /\ Len(slept) = (IF Len(outcomes) = 0 THEN 0 ELSE Len(outcomes) - 1)
        /\ Len(notices) = Len(slept)
        /\ Len(outcomes) = (IF config.retry_count >= 0 THEN PlannedAttempts ELSE 0)
        /\ (~config.cancel_on_failure =>
              /\ pc = "returned"
              /\ errors = <<>>
              /\ warnings = <<ExpectedFailureText>>
              /\ log[Len(log)] = "return")
        /\ (config.cancel_on_failure =>
              /\ warnings = <<>>
              /\ errors = <<ExpectedFailureText>>)

\* The warning after failed POSTs of two kinds and the return.
C4_Witness ==
    /\ ~config.cancel_on_failure
    /\ config.retry_count = 1
    /\ pc = "returned"
    /\ ~success
    /\ Len(warnings) = 1
    /\ DescriptionCount(err_msg) = 2

\* C5: once an attempt has succeeded the call gives neither the error nor
\* a warning, whatever cancel_on_failure is, and ends by returning.
C5_SuccessIsSilent ==
    success =>
        /\ errors = <<>>
        /\ warnings = <<>>
        /\ pc # "error"
        /\ (pc = "failure_policy" =>
              /\ ENABLED ReturnVoid
              /\ ~ENABLED ReportError
              /\ ~ENABLED ReportWarning)
        /\ (pc = "returned" => log[Len(log)] = "return")

\* A call with cancel_on_failure returned after two failed attempts and a
\* success.
C5_Witness ==
    /\ success
    /\ config.cancel_on_failure
    /\ pc = "returned"
    /\ Len(posts) = 3

\* C6 (as stated): with a strategy other than "LINEAR" the i-th delay slept
\* is retry_interval * 2^(i-1).
C6_ExponentialDelay ==
    config.retry_strategy # "LINEAR" =>
        \A i \in DOMAIN slept :
            slept[i] = ExactTimesPow2(config.retry_interval, i - 1)

\* C7: with the strategy "LINEAR" every delay slept is retry_interval and
\* every notice names it.
C7_LinearDelay ==
    config.retry_strategy = "LINEAR" =>
        /\ \A i \in DOMAIN slept : slept[i] = Exact(config.retry_interval)
        /\ \A i \in DOMAIN notices :
              notices[i] = "Retrying webhook call in "
                           \o ToString(config.retry_interval)
                           \o " seconds (attempt " \o ToString(i + 1) \o "/"
                           \o ToString(PlannedAttempts) \o ")"

\* Three delays of three seconds each.
C7_Witness ==
    /\ config.retry_strategy = "LINEAR"
    /\ config.retry_interval = 3
    /\ Len(slept) = 3
    /\ slept[3] = <<0, 3>>

\* C9: an attempt is a success exactly when the transport gave no error and
\* the status is in 200..299; another status leaves "HTTP <status>. " and a
\* transport error "CURL error: <text>. " as the last piece of the message;
\* a success leaves the message alone.
C9_AttemptClassification ==
    (pc = "while" /\ outcomes # <<>> /\ outcomes[Len(outcomes)].handle) =>
        LET o == outcomes[Len(outcomes)]
            ok == o.res = "CURLE_OK" /\ o.http_code >= 200 /\ o.http_code < 300
            http == o.res = "CURLE_OK" /\ ~(o.http_code >= 200 /\ o.http_code < 300)
            transport == o.res # "CURLE_OK"
        IN  /\ success <=> ok
            /\ http => /\ err_msg # <<>>
                       /\ err_msg[Len(err_msg)]
                            = "HTTP " \o ToString(o.http_code) \o ". "
            /\ transport => /\ err_msg # <<>>
                            /\ err_msg[Len(err_msg)]
                                 = "CURL error: Timeout was reached. "
            /\ DescriptionCount(err_msg)
                 = Cardinality({i \in DOMAIN outcomes :
                                  Description(outcomes[i]) # <<>>})
            /\ Len(err_msg) = DescriptionCount(err_msg) + Len(slept)

\* Statuses 199 and 300 and a transport error failed, status 299 succeeded.
C9_Witness ==
    /\ pc = "while"
    /\ Len(outcomes) = 4
    /\ outcomes[1].http_code = 199
    /\ outcomes[2].http_code = 300
    /\ outcomes[3].res = "CURLE_OPERATION_TIMEDOUT"
    /\ outcomes[4].http_code = 299
    /\ success

----------------------------------------------------------------------------
(* Property of add_headers_from_jsonb, checked under HeaderSpec *)

\* C8: for a headers object the list sent is "Content-Type:
\* application/json" followed by one line "<key>: <value>" for each key
\* with a string value, in the order of the object; a key with another
\* value adds no line.
C8_HeaderLines ==
    (hdr_done /\ hdr_in.root = "object") =>
        hdr_out = <<"Content-Type: application/json">> \o StringLines(hdr_in.pairs)

\* A number between two strings.
C8_Witness ==
    /\ hdr_done
    /\ hdr_in.root = "object"
    /\ Len(hdr_in.pairs) = 3
    /\ hdr_in.pairs[1].val.type = "jbvString"
    /\ hdr_in.pairs[2].val.type = "jbvNumeric"
    /\ hdr_in.pairs[3].val.type = "jbvString"
    /\ hdr_out = <<"Content-Type: application/json", "X-K1: v", "X-K3: v">>

----------------------------------------------------------------------------
(* Property of the worker, checked under WorkerSpec *)

\* C10 (as stated): once SIGTERM has been handled the worker starts no
\* further iteration and, when it exits, exits with status 0.
C10_CleanExitAfterSigterm ==
    got_SIGTERM =>
        /\ iterations = iter_at_term
        /\ (wpc = "exited" => exit_code = 0)

----------------------------------------------------------------------------
(* Further vocabulary *)

\* How often event e stands in the log l.
Count(l, e) == Cardinality({i \in DOMAIN l : l[i] = e})

InitEvents == {"curl_easy_init", "curl_easy_init_null"}

\* The tags "Attempt i/N failed. " of a call.
AllTags ==
    {"Attempt " \o ToString(i) \o "/" \o ToString(PlannedAttempts) \o " failed. " :
        i \in 1..(MaxRetry + 1)}

TagCount(pieces) == Cardinality({i \in DOMAIN pieces : pieces[i] \in AllTags})

\* The notice before the attempt with 1-based number n, naming delay d.
NoticeText(d, n) ==
    "Retrying webhook call in " \o ToString(d) \o " seconds (attempt "
    \o ToString(n) \o "/" \o ToString(PlannedAttempts) \o ")"

\* The ints a delay of the call can be.
DelayValues ==
    {config.retry_interval}
    \cup {MulPow2Wrap(config.retry_interval, a) : a \in 0..MaxRetry}

\* The answer of iteration i was a POST with a 2xx status.
Succeeded(o) ==
    o.handle /\ o.res = "CURLE_OK" /\ o.http_code >= 200 /\ o.http_code < 300

----------------------------------------------------------------------------
(* Further properties of call_webhook, checked under Spec *)

\* C13 (as stated): when every handle was created and all N + 1 planned
\* attempts failed, the message holds N + 1 tags "Attempt i/N failed.", one
\* for every failed attempt, the last included.
C13_TagForEveryFailure ==
    (config.retry_count >= 0 /\ LoopEnded /\ ~success /\ NullHandles = 0) =>
        TagCount(err_msg) = PlannedAttempts

\* C13 (amended): the tag of an iteration is appended when the next
\* iteration begins, after the iteration's own description: there is one
\* tag per delay, the message after the loop is, iteration by iteration,
\* the tag of the iteration before and then the own description, and when
\* all N + 1 planned iterations failed it holds N tags: the last failure
\* has none.
C13_TagOnRetryOnly ==
    /\ TagCount(err_msg) = Len(slept)
    /\ (LoopEnded => err_msg = ExpectedPieces(outcomes, 1, PlannedAttempts))
    /\ (config.retry_count >= 0 /\ LoopEnded /\ ~success =>
          TagCount(err_msg) = config.retry_count)

\* Three failed POSTs of retry_count = 2 left two tags and three
\* descriptions.
C13_Witness ==
    /\ config.retry_count = 2
    /\ pc = "failure_policy"
    /\ ~success
    /\ NullHandles = 0
    /\ TagCount(err_msg) = 2
    /\ DescriptionCount(err_msg) = 3
    /\ err_msg[2] = "Attempt 1/3 failed. "

\* C14 (as stated): the first iteration follows the global initialisation
\* directly; every later one follows a notice and then a sleep; the notice
\* before attempt j names attempt j + 1 of retry_count + 1 and the number
\* of seconds that is then slept; notices and delays number the attempts
\* less one.
C14_NoticeThenDelay ==
    config.retry_count >= 0 =>
        /\ Len(notices) = Len(slept)
        /\ (pc = "curl_easy_init" => Len(slept) = Len(outcomes))
        /\ (pc # "curl_easy_init" /\ outcomes # <<>> =>
              Len(slept) = Len(outcomes) - 1)
        /\ \A j \in DOMAIN slept :
              \E d \in DelayValues :
                  /\ d >= 0
                  /\ notices[j] = NoticeText(d, j + 1)
                  /\ slept[j] = Exact(d)
        /\ \A p \in DOMAIN log :
              /\ log[p] \in InitEvents =>
                    \/ p = 2 /\ log[1] = "curl_global_init"
                    \/ p > 3 /\ log[p - 1] = "sleep" /\ log[p - 2] = "notice"
              /\ log[p] = "notice" => p < Len(log) /\ log[p + 1] = "sleep"
              /\ log[p] = "sleep" => log[p - 1] = "notice"

\* C15: the error and the warning are given only after the loop has ended
\* and the library was cleaned up, with every planned iteration done or a
\* success; a failed iteration leaves the call in the loop, which goes on
\* while the budget lasts; a call gives at most one of the two.
C15_PolicyAfterLoop ==
    /\ (~LoopEnded \/ pc = "failure_policy" =>
          errors = <<>> /\ warnings = <<>>)
    /\ Len(errors) + Len(warnings) <= 1
    /\ (errors # <<>> \/ warnings # <<>> =>
          /\ ~success
          /\ Len(outcomes) =
                (IF config.retry_count >= 0 THEN PlannedAttempts ELSE 0))
    /\ \A p \in DOMAIN log :
          log[p] \in {"ereport_error", "ereport_warning"} =>
              /\ p > 1
              /\ log[p - 1] = "curl_global_cleanup"
              /\ \A q \in DOMAIN log :
                    q > p => log[q] = "return"
    /\ (pc = "while" /\ ~success =>
          /\ current_attempt = Len(outcomes)
          /\ (Len(outcomes) < PlannedAttempts => LoopCondition))

\* The error after three failed iterations.
C15_Witness ==
    /\ pc = "error"
    /\ Len(errors) = 1
    /\ Len(outcomes) = 3
    /\ log[Len(log)] = "ereport_error"

\* C16: curl_global_init is the first call of the library and is made once;
\* curl_global_cleanup is made once, when the loop ends and before the
\* error, the warning or the return; every handle and every POST lies
\* between the two.
C16_GlobalInitAndCleanup ==
    /\ (pc # "curl_global_init" =>
          log[1] = "curl_global_init" /\ Count(log, "curl_global_init") = 1)
    /\ Count(log, "curl_global_cleanup") = (IF LoopEnded THEN 1 ELSE 0)
    /\ \A p \in DOMAIN log :
          log[p] \in InitEvents \cup {"post"} =>
              /\ p > 1
              /\ \A q \in DOMAIN log :
                    log[q] = "curl_global_cleanup" => p < q
    /\ \A p \in DOMAIN log :
          log[p] \in {"ereport_error", "ereport_warning", "return"} =>
              \E q \in 1..(p - 1) : log[q] = "curl_global_cleanup"

\* The three ways out, each after the cleanup: here the return after a
\* success on the second POST.
C16_Witness ==
    /\ pc = "returned"
    /\ success
    /\ Len(posts) = 2
    /\ Count(log, "curl_global_cleanup") = 1

\* C17: every POST carries the lines the headers object asks for and the
\* text of the payload, however many attempts preceded it; every handle
\* is followed by the building of its list, the POST and the two releases
\* before anything else happens, so that no list or handle outlives its
\* iteration.
C17_FreshPerAttempt ==
    /\ \A i \in DOMAIN posts :
          /\ posts[i].headers =
                <<"Content-Type: application/json">>
                \o StringLines(headers_jsonb.pairs)
          /\ posts[i].body = payload.text
    /\ \A p \in DOMAIN log :
          log[p] = "curl_easy_init" =>
              /\ p + 4 <= Len(log)
              /\ log[p + 1] = "curl_slist_append"
              /\ log[p + 2] = "post"
              /\ log[p + 3] = "curl_slist_free_all"
              /\ log[p + 4] = "curl_easy_cleanup"
    /\ Count(log, "curl_easy_init") = Count(log, "curl_easy_cleanup")
    /\ Count(log, "curl_slist_append") = Count(log, "curl_slist_free_all")
    /\ Count(log, "post") = Len(posts)

\* Three POSTs with a custom header.
C17_Witness ==
    /\ Len(posts) = 3
    /\ headers_jsonb.pairs # <<>>
    /\ posts[3].headers = <<"Content-Type: application/json", "X-Auth: secret">>

\* C19: an iteration without a handle performs no POST and appends no
\* description, yet counts: the attempt index is the number of iterations,
\* the iterations stay within retry_count + 1, the call is not successful
\* after it, the loop goes on while the budget lasts, and the iteration
\* after it is preceded by the usual delay.
C19_NullHandleIteration ==
    NullHandles > 0 =>
        /\ Len(posts) = Len(outcomes) - NullHandles
        /\ Count(log, "post") = Len(posts)
        /\ DescriptionCount(err_msg) =
              Cardinality({i \in DOMAIN outcomes :
                             outcomes[i].handle /\ ~Succeeded(outcomes[i])})
        /\ current_attempt = Len(outcomes)
        /\ Len(outcomes) <= PlannedAttempts
        /\ (~outcomes[Len(outcomes)].handle =>
              /\ ~success
              /\ (pc = "while" /\ Len(outcomes) < PlannedAttempts =>
                    LoopCondition))
        /\ \A i \in DOMAIN outcomes :
              (~outcomes[i].handle /\ i < Len(outcomes)) => Len(slept) >= i
        /\ Len(slept) = (IF pc = "curl_easy_init" THEN Len(outcomes)
                                                  ELSE Len(outcomes) - 1)

\* A missing handle between two failed POSTs, and the budget of three used
\* up.
C19_Witness ==
    /\ config.retry_count = 2
    /\ pc = "failure_policy"
    /\ Len(outcomes) = 3
    /\ outcomes[1].handle
    /\ ~outcomes[2].handle
    /\ outcomes[3].handle
    /\ Len(posts) = 2
    /\ Len(slept) = 2

\* C20: a call that returned without a warning had a POST with a status
\* in 200..299; with a negative retry_count no iteration runs, nothing is
\* posted, slept or appended, and the call ends in the error or the
\* warning, whose text is the bare prefix.
C20_SilentReturnNeedsSuccess ==
    /\ (pc = "returned" /\ warnings = <<>> =>
          /\ errors = <<>>
          /\ \E i \in DOMAIN outcomes : Succeeded(outcomes[i]))
    /\ (config.retry_count < 0 =>
          /\ outcomes = <<>> /\ posts = <<>> /\ slept = <<>>
          /\ notices = <<>> /\ err_msg = <<>> /\ ~success
          /\ pc \in {"curl_global_init", "while", "failure_policy",
                     "returned", "error"}
          /\ (CallEnded /\ config.cancel_on_failure =>
                /\ pc = "error"
                /\ errors = <<"Webhook delivery failed: ">>
                /\ warnings = <<>>)
          /\ (CallEnded /\ ~config.cancel_on_failure =>
                /\ pc = "returned"
                /\ warnings = <<"Webhook delivery failed: ">>
                /\ errors = <<>>))

\* The error of a call with retry_count = -1.
C20_Witness ==
    /\ config.retry_count = -1
    /\ pc = "error"
    /\ posts = <<>>
    /\ errors = <<"Webhook delivery failed: ">>

----------------------------------------------------------------------------
(* Property of the loop at the ends of the int range, checked under WideSpec *)

\* C18 (as stated): the attempt counter is the number of iterations done,
\* and the iterations never exceed retry_count + 1 as the 32-bit addition
\* gives it (no iteration when that is not positive).
C18_LoopWithinBudget32 ==
    /\ current_attempt = Len(outcomes)
    /\ Len(outcomes) <=
          (IF Inc32(config.retry_count) > 0 THEN Inc32(config.retry_count)
                                            ELSE 0)

----------------------------------------------------------------------------
(* Property of the worker's reload, checked under WorkerFairSpec *)

\* C11: a SIGHUP leaves the worker where it is and running; until a
\* ProcessConfigFile has followed it the flag stays set or the reload is
\* the next statement; and a ProcessConfigFile does follow, unless the
\* worker exits first (or the iterations followed are used up).
C11_ReloadFollowsSighup ==
    /\ [](hup_pending => (got_SIGHUP \/ wpc = "reload"))
    /\ [][sighups' # sighups => (wpc' = wpc /\ exit_code' = exit_code)]_vars
    /\ (hup_pending ~>
          \/ ~hup_pending
          \/ wpc = "exited"
          \/ (wpc = "while" /\ iterations >= MaxIterations))

\* A SIGHUP handled between the read of the flag and its clearing, with the
\* flag already set: one reload follows both signals.
C11_Witness ==
    /\ sighups = 2
    /\ reloads = 1
    /\ ~hup_pending
    /\ ~got_SIGHUP
    /\ wpc = "while"
    /\ exit_code = -1

=============================================================================
